---- MODULE Spec2Model ----
(***************************************************************************)
(* tracing-subscriber-init: the verbosity-to-level resolver                *)
(* (src/utils.rs), the Config trait with its defaulted accessors           *)
(* (src/config.rs) and the four layer assemblers with their _filtered      *)
(* variants (src/format/*.rs).                                             *)
(*                                                                         *)
(* Values                                                                  *)
(*   Level        "ERROR" | "WARN" | "INFO" | "DEBUG" | "TRACE"            *)
(*   Option<T>    the empty set for None, {x} for Some(x)                  *)
(*   LevelFilter  Option<Level>; None is LevelFilter::OFF                  *)
(*   "PANIC"      the outcome of a call that panics instead of returning   *)
(***************************************************************************)
EXTENDS Integers, Sequences, FiniteSets, TLC

VARIABLES
    debug_assertions,   \* cfg(debug_assertions): TRUE in a debug build
    quiet,              \* first argument of a direct get_effective_level call
    verbosity,          \* second argument of a direct get_effective_level call
    level,              \* value returned by that call, "UNSET" before it
    config,             \* the TracingConfig implementation handed to an assembler
    ret,                \* what the last assembler call returned, until it is moved
    held,               \* the value of an earlier call the program kept
    global_default,     \* the process-wide default subscriber slot (Option)
    scoped,             \* the calling thread's scoped default override (Option)
    guards,             \* the live DefaultGuards, in the order they were created
    next_id,            \* identity of the next Registry that registry() builds
    outcome,            \* the last installation call or guard drop and its result
    history,            \* the global installation calls so far, with their results
    emitted,            \* the records dispatched so far, each with the layers that wrote it
    span,               \* the span the program holds (Option)
    pc,                 \* "running", "returning", "unwinding" or "exited"
    asm,                \* the assembler call in progress, statement by statement
    race                \* the threads calling try_init at the same time

level_vars == <<quiet, verbosity, level>>

install_vars == <<global_default, scoped, guards, next_id, outcome, history, pc>>

emit_vars == <<emitted, span>>

vars ==
    <<debug_assertions, quiet, verbosity, level, config, ret, held,
      global_default, scoped, guards, next_id, outcome, history, emitted, span, pc,
      asm, race>>

----------------------------------------------------------------------------
(* Bounds and program constants *)

\* largest value of a u8 counter
U8Max == 255

\* quiet counters of the configurations handed to the assemblers: 0..MaxQuiet
MaxQuiet == 2

\* verbose counters of the configurations handed to the assemblers: 0..MaxVerbose
MaxVerbose == 4

\* how many defaulted trait methods a generated configuration overrides
MaxOverrides == 1

\* how many Registries one run of the installation model builds
MaxRegistries == 3

\* installation calls in a run that also calls every assembler
MaxFrameInstalls == 2

\* threads that call try_init at the same time
RaceThreads == 2

U8 == 0..U8Max

Levels == {"ERROR", "WARN", "INFO", "DEBUG", "TRACE"}

None == {}

Some(x) == {x}

----------------------------------------------------------------------------
(* src/utils.rs: get_effective_level *)

\* a resolver that consults quiet before verbose
get_effective_level_quiet_first(q, v) ==
    IF q > 0
    THEN CASE q = 1 -> "WARN"
           [] OTHER -> "ERROR"
    ELSE IF v > 0
    THEN CASE v = 1 -> "DEBUG"
           [] OTHER -> "TRACE"
    ELSE "INFO"

\* a debug resolver with the arms of its match on verbosity exchanged
get_effective_level_arms_exchanged(q, v) ==
    IF v > 0
    THEN CASE v = 1 -> "TRACE"
           [] OTHER -> "DEBUG"
    ELSE IF q > 0
    THEN CASE q = 1 -> "WARN"
           [] OTHER -> "ERROR"
    ELSE "INFO"


\* #[cfg(debug_assertions)] fn get_effective_level(quiet, verbosity)
get_effective_level_debug(q, v) ==
    IF v > 0
    THEN CASE v = 1 -> "DEBUG"
           [] OTHER -> "TRACE"
    ELSE IF q > 0
    THEN CASE q = 1 -> "WARN"
           [] OTHER -> "ERROR"
    ELSE "INFO"

\* a release resolver that indexes a five-element ladder without clamping
get_effective_level_unclamped(q, v) ==
    IF v <= 4
    THEN <<"ERROR", "WARN", "INFO", "DEBUG", "TRACE">>[v + 1]
    ELSE "PANIC"

\* a release resolver that lets each quiet flag cancel one verbose flag
get_effective_level_quiet_cancels(q, v) ==
    LET n == IF v > q THEN v - q ELSE 0
    IN  CASE n = 0 -> "ERROR"
          [] n = 1 -> "WARN"
          [] n = 2 -> "INFO"
          [] n = 3 -> "DEBUG"
          [] OTHER -> "TRACE"

\* a release resolver whose ladder starts one rung too low (base level warn)
get_effective_level_shifted(q, v) ==
    CASE v = 0 -> "WARN"
      [] v = 1 -> "INFO"
      [] v = 2 -> "DEBUG"
      [] OTHER -> "TRACE"

\* #[cfg(not(debug_assertions))] fn get_effective_level(_quiet, verbosity)
get_effective_level_release(q, v) ==
    CASE v = 0 -> "ERROR"
      [] v = 1 -> "WARN"
      [] v = 2 -> "INFO"
      [] v = 3 -> "DEBUG"
      [] OTHER -> "TRACE"

\* the cfg attributes lost: the release body compiled into every build
get_effective_level_release_only(q, v) == get_effective_level_release(q, v)

\* the one get_effective_level the build compiles in
get_effective_level(q, v) ==
    IF debug_assertions
    THEN get_effective_level_debug(q, v)
    ELSE get_effective_level_release(q, v)

----------------------------------------------------------------------------
(* src/config.rs: the Config trait (exported as TracingConfig).            *)
(* A configuration is a concrete implementation of the trait: the two      *)
(* required counters, the boolean accessors it overrides (a function from  *)
(* the overridden method names to the values they return) and its          *)
(* with_span_events override, if any (None when it keeps the default       *)
(* body, Some(r) when its own body returns r).                             *)

BoolMethods ==
    {"with_ansi", "with_current_span", "with_file", "with_line_number",
     "with_level", "with_span_list", "with_target", "with_thread_ids",
     "with_thread_names"}

FmtSpan == {"NONE", "NEW", "ENTER", "EXIT", "CLOSE", "ACTIVE", "FULL"}

OptionFmtSpan == {None} \cup {Some(f) : f \in FmtSpan}

\* the value of a boolean accessor: the override, else the default body
Override(c, method, default) ==
    IF method \in DOMAIN c.overrides THEN c.overrides[method] ELSE default

Config_quiet(c) == c.quiet

Config_verbose(c) == c.verbose

\* a trait whose default body for with_ansi returns false
Config_with_ansi_default_off(c) == Override(c, "with_ansi", FALSE)

Config_with_ansi(c) == Override(c, "with_ansi", TRUE)

Config_with_current_span(c) == Override(c, "with_current_span", FALSE)

Config_with_file(c) == Override(c, "with_file", FALSE)

Config_with_line_number(c) == Override(c, "with_line_number", FALSE)

Config_with_level(c) == Override(c, "with_level", TRUE)

Config_with_span_events(c) ==
    IF c.span_events = None THEN None ELSE CHOOSE r \in c.span_events : TRUE

Config_with_span_list(c) == Override(c, "with_span_list", FALSE)

Config_with_target(c) == Override(c, "with_target", FALSE)

Config_with_thread_ids(c) == Override(c, "with_thread_ids", FALSE)

Config_with_thread_names(c) == Override(c, "with_thread_names", FALSE)

\* src/utils.rs: impl TracingConfig for TestAll
TestAll ==
    [quiet |-> 0, verbose |-> 3,
     overrides |-> [m \in {"with_current_span", "with_file", "with_line_number",
                           "with_span_list", "with_target", "with_thread_ids",
                           "with_thread_names"} |-> TRUE],
     span_events |-> Some(Some("FULL"))]

\* src/utils.rs: impl TracingConfig for TestConfig
TestConfig ==
    [quiet |-> 0, verbose |-> 1, overrides |-> <<>>, span_events |-> None]

\* src/utils.rs: impl TracingConfig for TestJson
TestJson ==
    [quiet |-> 0, verbose |-> 1,
     overrides |-> [m \in {"with_current_span", "with_span_list"} |-> TRUE],
     span_events |-> None]

NumOverrides(c) == Cardinality(DOMAIN c.overrides) + Cardinality(c.span_events)

Quiets == (0..MaxQuiet) \cup {U8Max}

Verboses == (0..MaxVerbose) \cup {U8Max}

\* the implementations handed to the assemblers: the three of the source and
\* every implementation overriding at most MaxOverrides defaulted methods
Configs ==
    {TestAll, TestConfig, TestJson} \cup
    { c \in [quiet : Quiets, verbose : Verboses,
             overrides : UNION {[M -> BOOLEAN] :
                                M \in {M \in SUBSET BoolMethods :
                                         Cardinality(M) <= MaxOverrides}},
             span_events : {None} \cup {Some(r) : r \in OptionFmtSpan}] :
        NumOverrides(c) <= MaxOverrides }

----------------------------------------------------------------------------
(* The tracing-subscriber builder the assemblers drive: fmt::Layer as the  *)
(* record of its options. json_opts is None unless the format is Json;     *)
(* calls is the chain of builder calls that produced the layer, in order.  *)

\* fmt::layer(): the builder's defaults
fmt_layer ==
    [format |-> "Full", ansi |-> TRUE, file |-> FALSE, level |-> TRUE,
     target |-> TRUE, thread_ids |-> FALSE, thread_names |-> FALSE,
     line_number |-> FALSE, span_events |-> "NONE", json_opts |-> None,
     timer |-> "SystemTime", calls |-> <<"layer">>]

Layer_compact(l) ==
    [l EXCEPT !.format = "Compact", !.calls = Append(@, "compact")]

Layer_pretty(l) ==
    [l EXCEPT !.format = "Pretty", !.file = TRUE, !.line_number = TRUE,
              !.calls = Append(@, "pretty")]

Layer_json(l) ==
    [l EXCEPT !.format = "Json", !.ansi = FALSE,
              !.json_opts = Some([current_span |-> TRUE, span_list |-> TRUE]),
              !.calls = Append(@, "json")]

Layer_with_ansi(l, b) ==
    [l EXCEPT !.ansi = b, !.calls = Append(@, "with_ansi")]

Layer_with_file(l, b) ==
    [l EXCEPT !.file = b, !.calls = Append(@, "with_file")]

Layer_with_level(l, b) ==
    [l EXCEPT !.level = b, !.calls = Append(@, "with_level")]

Layer_with_target(l, b) ==
    [l EXCEPT !.target = b, !.calls = Append(@, "with_target")]

Layer_with_thread_ids(l, b) ==
    [l EXCEPT !.thread_ids = b, !.calls = Append(@, "with_thread_ids")]

Layer_with_thread_names(l, b) ==
    [l EXCEPT !.thread_names = b, !.calls = Append(@, "with_thread_names")]

Layer_with_line_number(l, b) ==
    [l EXCEPT !.line_number = b, !.calls = Append(@, "with_line_number")]

JsonOpts(l) == CHOOSE j \in l.json_opts : TRUE

Layer_with_current_span(l, b) ==
    [l EXCEPT !.json_opts = Some([JsonOpts(l) EXCEPT !.current_span = b]),
              !.calls = Append(@, "with_current_span")]

Layer_with_span_list(l, b) ==
    [l EXCEPT !.json_opts = Some([JsonOpts(l) EXCEPT !.span_list = b]),
              !.calls = Append(@, "with_span_list")]

Layer_with_span_events(l, f) ==
    [l EXCEPT !.span_events = f, !.calls = Append(@, "with_span_events")]

\* layer.with_timer(timer), as the *_utc_works tests customize a returned layer
Layer_with_timer(l, t) ==
    [l EXCEPT !.timer = t, !.calls = Append(@, "with_timer")]

\* LevelFilter::OFF
OFF == None

\* LevelFilter::from(level)
LevelFilter_from(lvl) == Some(lvl)

\* layer.with_filter(level_filter): the Filtered pair
with_filter(l, f) == [layer |-> l, filter |-> f]

\* the seven display setters in the order every assembler chains them
DisplayOptions(l, c) ==
    Layer_with_line_number(
      Layer_with_thread_names(
        Layer_with_thread_ids(
          Layer_with_target(
            Layer_with_level(
              Layer_with_file(
                Layer_with_ansi(l, Config_with_ansi(c)),
                Config_with_file(c)),
              Config_with_level(c)),
            Config_with_target(c)),
          Config_with_thread_ids(c)),
        Config_with_thread_names(c)),
      Config_with_line_number(c))

\* a span-event step that calls the setter whether or not a policy is set
SpanEvents_unconditional(l, c) ==
    Layer_with_span_events(l,
        IF Config_with_span_events(c) # None
        THEN CHOOSE f \in Config_with_span_events(c) : TRUE
        ELSE "NONE")

\* if let Some(fmt_span) = config.with_span_events() { layer.with_span_events(fmt_span) }
SpanEvents(l, c) ==
    IF Config_with_span_events(c) # None
    THEN Layer_with_span_events(l, CHOOSE f \in Config_with_span_events(c) : TRUE)
    ELSE l

\* a threshold that three quiet flags or more turn off
ConfigLevelFilter_quiet_off(c) ==
    IF Config_quiet(c) >= 3
    THEN OFF
    ELSE LevelFilter_from(get_effective_level(Config_quiet(c), Config_verbose(c)))


\* let level = get_effective_level(config.quiet(), config.verbose());
\* let level_filter = LevelFilter::from(level);
ConfigLevelFilter(c) ==
    LevelFilter_from(get_effective_level(Config_quiet(c), Config_verbose(c)))

----------------------------------------------------------------------------
(* src/format/{full,compact,pretty,json}.rs: the assemblers. Each returns  *)
(* the pair <<layer, level_filter>>; each filtered returns the Filtered.   *)

\* full with the arguments of get_effective_level exchanged
full_counters_swapped(c) ==
    <<SpanEvents(DisplayOptions(fmt_layer, c), c),
      LevelFilter_from(get_effective_level(Config_verbose(c), Config_quiet(c)))>>

\* full applying the threshold itself: the layer it returns is already
\* wrapped in the filter
full_prefiltered(c) ==
    <<with_filter(SpanEvents(DisplayOptions(fmt_layer, c), c), ConfigLevelFilter(c)),
      ConfigLevelFilter(c)>>


\* full handing out again the layer of an earlier call that the program
\* still holds, in place of building one from fmt::layer()
full_shared(c) ==
    IF held.fn = "full"
    THEN held.value
    ELSE <<SpanEvents(DisplayOptions(fmt_layer, c), c), ConfigLevelFilter(c)>>


\* full without the with_span_events step
full_without_span_events(c) ==
    <<DisplayOptions(fmt_layer, c), ConfigLevelFilter(c)>>


full(c) ==
    <<SpanEvents(DisplayOptions(fmt_layer, c), c), ConfigLevelFilter(c)>>

\* compact with the values of with_file and with_line_number exchanged
compact_file_line_swapped(c) ==
    LET l  == SpanEvents(DisplayOptions(Layer_compact(fmt_layer), c), c)
    IN  <<[l EXCEPT !.file = Config_with_line_number(c),
                    !.line_number = Config_with_file(c)],
          ConfigLevelFilter(c)>>

compact(c) ==
    <<SpanEvents(DisplayOptions(Layer_compact(fmt_layer), c), c), ConfigLevelFilter(c)>>

\* pretty applying the two JSON-only options as json does
pretty_json_options(c) ==
    <<SpanEvents(
        Layer_with_span_list(
          Layer_with_current_span(
            [DisplayOptions(Layer_pretty(fmt_layer), c) EXCEPT
                !.json_opts = Some([current_span |-> TRUE, span_list |-> TRUE])],
            Config_with_current_span(c)),
          Config_with_span_list(c)),
        c),
      ConfigLevelFilter(c)>>

pretty(c) ==
    <<SpanEvents(DisplayOptions(Layer_pretty(fmt_layer), c), c), ConfigLevelFilter(c)>>

json(c) ==
    <<SpanEvents(
        Layer_with_span_list(
          Layer_with_current_span(
            DisplayOptions(Layer_json(fmt_layer), c),
            Config_with_current_span(c)),
          Config_with_span_list(c)),
        c),
      ConfigLevelFilter(c)>>

\* a full filtered whose filter lets every level through
full_filtered_trace(c) == with_filter(full(c)[1], LevelFilter_from("TRACE"))


full_filtered(c) == with_filter(full(c)[1], full(c)[2])

compact_filtered(c) == with_filter(compact(c)[1], compact(c)[2])

\* pretty_filtered wrapping the layer with a filter that lets everything pass
pretty_filtered_trace(c) == with_filter(pretty(c)[1], LevelFilter_from("TRACE"))

pretty_filtered(c) == with_filter(pretty(c)[1], pretty(c)[2])

json_filtered(c) == with_filter(json(c)[1], json(c)[2])

----------------------------------------------------------------------------
(* The tracing framework's severity gate, as the specification describes   *)
(* it: a filter drops the records below its threshold.                     *)

\* tracing's order on levels and filters: OFF < ERROR < WARN < INFO < DEBUG < TRACE
Verbosity(lvl) ==
    CASE lvl = "ERROR" -> 1
      [] lvl = "WARN"  -> 2
      [] lvl = "INFO"  -> 3
      [] lvl = "DEBUG" -> 4
      [] lvl = "TRACE" -> 5

\* the span lifecycle points at which a layer with the FmtSpan f writes a
\* synthesized record
FmtSpan_events(f) ==
    CASE f = "NONE"   -> {}
      [] f = "NEW"    -> {"new"}
      [] f = "ENTER"  -> {"enter"}
      [] f = "EXIT"   -> {"exit"}
      [] f = "CLOSE"  -> {"close"}
      [] f = "ACTIVE" -> {"enter", "exit"}
      [] f = "FULL"   -> {"new", "enter", "exit", "close"}

\* a record of level lvl passes the LevelFilter f
LevelFilter_enabled(f, lvl) ==
    /\ f # OFF
    /\ Verbosity(lvl) <= Verbosity(CHOOSE t \in f : TRUE)

\* a record of level lvl reaches the layer inside the Filtered
Filtered_enabled(filtered, lvl) == LevelFilter_enabled(filtered.filter, lvl)

----------------------------------------------------------------------------
(* Installation. The dispatcher belongs to the tracing framework: one      *)
(* process-wide slot that can be set once, and per thread a scoped         *)
(* override that a DefaultGuard reverts to the override it replaced.       *)
(* A subscriber is the Registry [id, layers] an installation call built.   *)

\* tracing::dispatcher::set_global_default: <<slot afterwards, result>>
Dispatch_set_global_default(g, sub) ==
    IF g = None THEN <<Some(sub), "Ok">> ELSE <<g, "SetGlobalDefaultError">>

\* SubscriberInitExt::try_init
SubscriberInitExt_try_init(g, sub) == Dispatch_set_global_default(g, sub)

\* SubscriberInitExt::init: try_init().expect(..)
SubscriberInitExt_init(g, sub) ==
    LET r == SubscriberInitExt_try_init(g, sub)
    IN  IF r[2] = "Ok" THEN r ELSE <<r[1], "Panic">>

\* SubscriberInitExt::set_default: <<override afterwards, guard>>; the guard
\* keeps the override it replaced
SubscriberInitExt_set_default(s, sub) ==
    <<Some(sub), [sub |-> sub, prior |-> s]>>

\* Drop for DefaultGuard: the override afterwards
DefaultGuard_drop(guard) == guard.prior

\* the subscriber a record is dispatched to: the scoped override, else the
\* global default, else none
get_default(g, s) == IF s # None THEN s ELSE g

\* the layers of sub that write a record of level lvl
\* the layers of sub that write the synthesized record of the lifecycle step
\* kind of a span of level lvl: those whose filter enabled the span and whose
\* FmtSpan asks for the step
SpanWriters(sub, lvl, kind) ==
    {i \in DOMAIN sub.layers :
        /\ Filtered_enabled(sub.layers[i], lvl)
        /\ kind \in FmtSpan_events(sub.layers[i].layer.span_events)}

\* a record of level lvl reaches the formatting layer x: a fmt::Layer has no
\* filter of its own, a Filtered asks its filter and then the layer inside
RECURSIVE Layer_passes(_, _)
Layer_passes(x, lvl) ==
    IF "filter" \in DOMAIN x
    THEN LevelFilter_enabled(x.filter, lvl) /\ Layer_passes(x.layer, lvl)
    ELSE TRUE

Writers(sub, lvl) ==
    {i \in DOMAIN sub.layers : Layer_passes(sub.layers[i], lvl)}

----------------------------------------------------------------------------
(* src/initialize.rs: set_default, init, try_init *)

\* registry().with(layers)
registry_with(id, layers) == [id |-> id, layers |-> layers]

\* a set_default whose override is reverted before the guard is returned
set_default_reverted(s, id, layers) ==
    <<s, [sub |-> registry_with(id, layers), prior |-> s]>>

\* a set_default whose guard forgets the override it replaced
set_default_prior_lost(s, id, layers) ==
    <<Some(registry_with(id, layers)),
      [sub |-> registry_with(id, layers), prior |-> None]>>

set_default(s, id, layers) ==
    SubscriberInitExt_set_default(s, registry_with(id, layers))

\* an init that discards the error of a failed installation
init_error_discarded(g, id, layers) ==
    <<SubscriberInitExt_try_init(g, registry_with(id, layers))[1], "Ok">>

init(g, id, layers) == SubscriberInitExt_init(g, registry_with(id, layers))

\* a try_init that unwraps the result as init does
try_init_unwrapped(g, id, layers) ==
    SubscriberInitExt_init(g, registry_with(id, layers))

\* a try_init that replaces the default already set
try_init_replacing(g, id, layers) == <<Some(registry_with(id, layers)), "Ok">>

\* Ok(registry().with(layers).try_init()?)
try_init(g, id, layers) ==
    LET r == SubscriberInitExt_try_init(g, registry_with(id, layers))
    IN  <<r[1], IF r[2] = "Ok" THEN "Ok" ELSE "Err">>

----------------------------------------------------------------------------
(* Assembling layers from a configuration *)

Assemblers == {"full", "compact", "pretty", "json"}

FilteredAssemblers ==
    {"full_filtered", "compact_filtered", "pretty_filtered", "json_filtered"}

NoRet == [fn |-> "none", value |-> <<>>]

\* held is [fn, value, original]: the assembler that returned it, the value
\* as the program has it now, and the value as the assembler returned it
NoHeld == [fn |-> "none", value |-> <<>>, original |-> <<>>]

\* asm is [fn, layer, level, filter, trace, at]: the assembler being
\* executed, the builder, the level and the LevelFilter it has so far, the
\* calls it has made and the index of its next statement
NoAsm ==
    [fn |-> "none", layer |-> fmt_layer, level |-> "UNSET", filter |-> None,
     trace |-> <<>>, at |-> 0]

\* race is [init, at, result, sub]: the state of the global slot's
\* once-flag, and per thread its position in try_init, the result it
\* returned and the Registry it built
NoRace == [init |-> "UNINITIALIZED", at |-> <<>>, result |-> <<>>, sub |-> <<>>]

NoOutcome == [op |-> "none", result |-> "none", id |-> 0, guard |-> None]

\* nothing installed, nothing dispatched
Idle ==
    /\ held = NoHeld
    /\ asm = NoAsm
    /\ race = NoRace
    /\ global_default = None
    /\ scoped = None
    /\ guards = <<>>
    /\ next_id = 1
    /\ outcome = NoOutcome
    /\ history = <<>>
    /\ emitted = {}
    /\ span = None
    /\ pc = "running"

Init ==
    /\ debug_assertions \in BOOLEAN
    /\ quiet = 0
    /\ verbosity = 0
    /\ level = "UNSET"
    /\ config \in Configs
    /\ ret = NoRet
    /\ Idle

\* an assembler that also installs a registry as the global default
Returns_installing(fn, value) ==
    /\ pc = "running"
    /\ ret' = [fn |-> fn, value |-> value]
    /\ global_default' = IF global_default = None
                         THEN Some(registry_with(0, <<>>))
                         ELSE global_default
    /\ UNCHANGED <<debug_assertions, asm, race, level_vars, config, held, scoped, guards,
                   next_id, outcome, history, pc, emit_vars>>


Returns(fn, value) ==
    /\ pc = "running"
    /\ ret' = [fn |-> fn, value |-> value]
    /\ UNCHANGED <<debug_assertions, asm, race, level_vars, config, held, install_vars, emit_vars>>

CallFull == Returns("full", full(config))

CallCompact == Returns("compact", compact(config))

CallPretty == Returns("pretty", pretty(config))

CallJson == Returns("json", json(config))

CallFullFiltered == Returns("full_filtered", full_filtered(config))

CallCompactFiltered == Returns("compact_filtered", compact_filtered(config))

CallPrettyFiltered == Returns("pretty_filtered", pretty_filtered(config))

CallJsonFiltered == Returns("json_filtered", json_filtered(config))

Next ==
    \/ CallFull
    \/ CallCompact
    \/ CallPretty
    \/ CallJson
    \/ CallFullFiltered
    \/ CallCompactFiltered
    \/ CallPrettyFiltered
    \/ CallJsonFiltered

Spec == Init /\ [][Next]_vars

----------------------------------------------------------------------------
(* Installing what was assembled: the program of tests/try_init.rs and of  *)
(* the tests in src/format, with any order of the calls. One function      *)
(* scope owns every guard; it ends by return or by the unwinding of a      *)
(* panic, dropping its live guards in reverse order of creation.           *)

\* A live guard is [sub, prior, over, before]: sub and prior are the
\* DefaultGuard set_default returned; over and before record the scoped
\* override and the current default at the moment of the call.

\* the configurations the installation model assembles layers from
InstallConfigs == {TestAll, TestConfig}

InitInstall ==
    /\ debug_assertions \in BOOLEAN
    /\ quiet = 0
    /\ verbosity = 0
    /\ level = "UNSET"
    /\ config \in InstallConfigs
    /\ ret = NoRet
    /\ Idle

\* vec![layer.boxed()] of the value the program holds: a filtered layer as
\* it is, an unfiltered pair as layer.with_filter(level_filter), else vec![]
LayersOf(r) ==
    IF r.fn \in FilteredAssemblers THEN <<r.value>>
    ELSE IF r.fn \in Assemblers THEN <<with_filter(r.value[1], r.value[2])>>
    ELSE <<>>

RemoveAt(seq, i) == SubSeq(seq, 1, i - 1) \o SubSeq(seq, i + 1, Len(seq))

\* a set_default that also installs its registry as the global default
CallSetDefault_global ==
    /\ pc = "running"
    /\ next_id <= MaxRegistries
    /\ LET r == set_default(scoped, next_id, LayersOf(ret))
       IN  /\ scoped' = r[1]
           /\ global_default' = IF global_default = None
                                THEN Some(r[2].sub)
                                ELSE global_default
           /\ guards' = Append(guards,
                  [sub |-> r[2].sub, prior |-> r[2].prior,
                   over |-> scoped,
                   before |-> get_default(global_default, scoped)])
           /\ outcome' = [op |-> "set_default", result |-> "Guard",
                          id |-> next_id, guard |-> None]
    /\ next_id' = next_id + 1
    /\ ret' = NoRet
    /\ UNCHANGED <<debug_assertions, asm, race, level_vars, config, held,
                   history, pc, emit_vars>>


CallSetDefault ==
    /\ pc = "running"
    /\ next_id <= MaxRegistries
    /\ LET r == set_default(scoped, next_id, LayersOf(ret))
       IN  /\ scoped' = r[1]
           /\ guards' = Append(guards,
                  [sub |-> r[2].sub, prior |-> r[2].prior,
                   over |-> scoped,
                   before |-> get_default(global_default, scoped)])
           /\ outcome' = [op |-> "set_default", result |-> "Guard",
                          id |-> next_id, guard |-> None]
    /\ next_id' = next_id + 1
    /\ ret' = NoRet
    /\ UNCHANGED <<debug_assertions, asm, race, level_vars, config, held, global_default,
                   history, pc, emit_vars>>

CallInit ==
    /\ pc = "running"
    /\ next_id <= MaxRegistries
    /\ LET r == init(global_default, next_id, LayersOf(ret))
       IN  /\ global_default' = r[1]
           /\ outcome' = [op |-> "init", result |-> r[2],
                          id |-> next_id, guard |-> None]
           /\ history' = Append(history,
                  [op |-> "init", result |-> r[2], id |-> next_id])
           /\ pc' = IF r[2] = "Panic" THEN "unwinding" ELSE pc
    /\ next_id' = next_id + 1
    /\ ret' = NoRet
    /\ UNCHANGED <<debug_assertions, asm, race, level_vars, config, held, scoped, guards,
                   emit_vars>>

CallTryInit ==
    /\ pc = "running"
    /\ next_id <= MaxRegistries
    /\ LET r == try_init(global_default, next_id, LayersOf(ret))
       IN  /\ global_default' = r[1]
           /\ outcome' = [op |-> "try_init", result |-> r[2],
                          id |-> next_id, guard |-> None]
           /\ history' = Append(history,
                  [op |-> "try_init", result |-> r[2], id |-> next_id])
           /\ pc' = IF r[2] = "Panic" THEN "unwinding" ELSE pc
    /\ next_id' = next_id + 1
    /\ ret' = NoRet
    /\ UNCHANGED <<debug_assertions, asm, race, level_vars, config, held, scoped, guards,
                   emit_vars>>

\* the guard at position i goes out of use: drop(guard)
Drops(i) ==
    /\ scoped' = DefaultGuard_drop(guards[i])
    /\ guards' = RemoveAt(guards, i)
    /\ outcome' = [op |-> "drop", result |-> "Dropped",
                   id |-> guards[i].sub.id, guard |-> Some(guards[i])]
    /\ UNCHANGED <<debug_assertions, asm, race, level_vars, config, ret, held, global_default,
                   next_id, history, emit_vars>>

DropGuard ==
    /\ pc = "running"
    /\ \E i \in DOMAIN guards : Drops(i)
    /\ pc' = pc

\* return, or `?`, before the end of the scope
EarlyReturn ==
    /\ pc = "running"
    /\ pc' = "returning"
    /\ outcome' = [op |-> "return", result |-> "none", id |-> 0, guard |-> None]
    /\ UNCHANGED <<debug_assertions, asm, race, level_vars, config, ret, held, global_default,
                   scoped, guards, next_id, history, emit_vars>>

\* the scope is left: its live guards are dropped, the last created first
ScopeExitDrop ==
    /\ pc \in {"returning", "unwinding"}
    /\ guards # <<>>
    /\ Drops(Len(guards))
    /\ pc' = pc

ScopeExited ==
    /\ pc \in {"returning", "unwinding"}
    /\ guards = <<>>
    /\ pc' = "exited"
    /\ UNCHANGED <<debug_assertions, asm, race, level_vars, config, ret, held, global_default,
                   scoped, guards, next_id, outcome, history, emit_vars>>

\* the record of one dispatch: an event of level lvl, or the lifecycle
\* step kind of a span of level lvl, handed to the subscriber `to`
Record(kind, lvl, to) ==
    [kind |-> kind, level |-> lvl, to |-> to,
     written |-> IF to = None THEN {}
                 ELSE IF kind = "event"
                      THEN Writers(CHOOSE x \in to : TRUE, lvl)
                      ELSE SpanWriters(CHOOSE x \in to : TRUE, lvl, kind)]

\* error!, warn!, info!, debug! or trace!: one record of level lvl,
\* dispatched to the current default; one record at each level
Event ==
    /\ pc = "running"
    /\ \E lvl \in Levels :
          /\ \A r \in emitted : ~(r.kind = "event" /\ r.level = lvl)
          /\ emitted' = emitted \cup
                 {Record("event", lvl, get_default(global_default, scoped))}
    /\ UNCHANGED <<debug_assertions, asm, race, level_vars, config, ret, held, install_vars, span>>

\* let span = span!(level, ..): registered with the current default
SpanNew ==
    /\ pc = "running"
    /\ span = None
    /\ \E lvl \in Levels :
          LET to == get_default(global_default, scoped)
          IN  /\ span' = Some([level |-> lvl, to |-> to, stage |-> "new"])
              /\ emitted' = emitted \cup {Record("new", lvl, to)}
    /\ UNCHANGED <<debug_assertions, asm, race, level_vars, config, ret, held, install_vars>>

\* a step of the span's life, notified to the subscriber the span belongs to
SpanStep(from, kind) ==
    /\ pc = "running"
    /\ span # None
    /\ LET sp == CHOOSE x \in span : TRUE
       IN  /\ sp.stage \in from
           /\ span' = Some([sp EXCEPT !.stage = kind])
           /\ emitted' = emitted \cup {Record(kind, sp.level, sp.to)}
    /\ UNCHANGED <<debug_assertions, asm, race, level_vars, config, ret, held, install_vars>>

\* let _enter = span.enter();
SpanEnter == SpanStep({"new"}, "enter")

\* _enter dropped
SpanExit == SpanStep({"enter"}, "exit")

\* span dropped
SpanClose == SpanStep({"new", "exit"}, "close")

NextInstall ==
    \/ CallFull
    \/ CallFullFiltered
    \/ CallCompactFiltered
    \/ CallSetDefault
    \/ CallInit
    \/ CallTryInit
    \/ DropGuard
    \/ EarlyReturn
    \/ ScopeExitDrop
    \/ ScopeExited

SpecInstall == InitInstall /\ [][NextInstall]_vars

\* every assembler and every installer, called in any order, with at most
\* MaxFrameInstalls installation calls
FrameSetDefault ==
    /\ next_id <= MaxFrameInstalls
    /\ CallSetDefault

FrameInit ==
    /\ next_id <= MaxFrameInstalls
    /\ CallInit

FrameTryInit ==
    /\ next_id <= MaxFrameInstalls
    /\ CallTryInit

NextFrame ==
    \/ CallFull
    \/ CallCompact
    \/ CallPretty
    \/ CallJson
    \/ CallFullFiltered
    \/ CallCompactFiltered
    \/ CallPrettyFiltered
    \/ CallJsonFiltered
    \/ FrameSetDefault
    \/ FrameInit
    \/ FrameTryInit
    \/ DropGuard

SpecFrame == InitInstall /\ [][NextFrame]_vars

\* the tests of src/format/full.rs: one set_default in the scope
TestSetDefault ==
    /\ guards = <<>>
    /\ next_id = 1
    /\ CallSetDefault

NextEmit ==
    \/ CallFullFiltered
    \/ TestSetDefault
    \/ SpanNew
    \/ SpanEnter
    \/ Event
    \/ SpanExit
    \/ SpanClose
    \/ DropGuard

SpecEmit == InitInstall /\ [][NextEmit]_vars

----------------------------------------------------------------------------
(* Calling an assembler twice: tests/try_init.rs and full_utc_works of     *)
(* src/format/full.rs. The program keeps the value of a first call, may    *)
(* customize it, install it and log through it, and calls again.           *)

TwiceConfigs ==
    {TestAll, TestConfig, TestJson,
     [quiet |-> 0, verbose |-> 0, overrides |-> <<>>, span_events |-> None]}

InitTwice ==
    /\ debug_assertions \in BOOLEAN
    /\ quiet = 0
    /\ verbosity = 0
    /\ level = "UNSET"
    /\ config \in TwiceConfigs
    /\ ret = NoRet
    /\ Idle

\* let layer = full_filtered(&config); the binding outlives the next call
Keep ==
    /\ pc = "running"
    /\ ret # NoRet
    /\ held = NoHeld
    /\ held' = [fn |-> ret.fn, value |-> ret.value, original |-> ret.value]
    /\ ret' = NoRet
    /\ UNCHANGED <<debug_assertions, asm, race, level_vars, config, install_vars, emit_vars>>

\* layer.with_timer(UtcTime::new(Iso8601::DEFAULT)) on the layer kept
Customize ==
    /\ pc = "running"
    /\ held.fn \in Assemblers
    /\ held.value[1].timer = "SystemTime"
    /\ held' = [held EXCEPT !.value = <<Layer_with_timer(@[1], "UtcTime"), @[2]>>]
    /\ UNCHANGED <<debug_assertions, asm, race, level_vars, config, ret, install_vars, emit_vars>>

\* set_default(vec![filtered_layer.boxed()]) of the layer kept
SetDefaultHeld ==
    /\ pc = "running"
    /\ held # NoHeld
    /\ next_id = 1
    /\ LET r == set_default(scoped, next_id, LayersOf(held))
       IN  /\ scoped' = r[1]
           /\ guards' = Append(guards,
                  [sub |-> r[2].sub, prior |-> r[2].prior,
                   over |-> scoped,
                   before |-> get_default(global_default, scoped)])
           /\ outcome' = [op |-> "set_default", result |-> "Guard",
                          id |-> next_id, guard |-> None]
    /\ next_id' = next_id + 1
    /\ UNCHANGED <<debug_assertions, asm, race, level_vars, config, ret, held, global_default,
                   history, pc, emit_vars>>

\* one record logged in the scope
LogOnce ==
    /\ emitted = {}
    /\ Event

NextTwice ==
    \/ CallFull
    \/ CallCompact
    \/ CallPretty
    \/ CallJson
    \/ CallFullFiltered
    \/ CallCompactFiltered
    \/ CallPrettyFiltered
    \/ CallJsonFiltered
    \/ Keep
    \/ Customize
    \/ SetDefaultHeld
    \/ LogOnce

SpecTwice == InitTwice /\ [][NextTwice]_vars

----------------------------------------------------------------------------
(* The example of src/lib.rs: the caller of an unfiltered assembler        *)
(* ignores the LevelFilter it got and installs the layer with one of its   *)
(* own, or with none.                                                      *)

LevelFilters == {OFF} \cup {LevelFilter_from(l) : l \in Levels}

\* set_default(vec![x.boxed()]), once in the scope
SetDefaultOf(x) ==
    /\ pc = "running"
    /\ next_id = 1
    /\ LET r == set_default(scoped, next_id, <<x>>)
       IN  /\ scoped' = r[1]
           /\ guards' = Append(guards,
                  [sub |-> r[2].sub, prior |-> r[2].prior,
                   over |-> scoped,
                   before |-> get_default(global_default, scoped)])
           /\ outcome' = [op |-> "set_default", result |-> "Guard",
                          id |-> next_id, guard |-> None]
    /\ next_id' = next_id + 1
    /\ held' = [fn |-> ret.fn, value |-> x, original |-> ret.value]
    /\ ret' = NoRet
    /\ UNCHANGED <<debug_assertions, asm, race, level_vars, config, global_default,
                   history, pc, emit_vars>>

\* the layer installed as returned, without any filter
SetDefaultBare ==
    /\ ret.fn \in Assemblers
    /\ SetDefaultOf(ret.value[1])

\* file_layer.with_filter(f) with a LevelFilter f of the caller's
SetDefaultOwnFilter ==
    /\ ret.fn \in Assemblers
    /\ \E f \in LevelFilters : SetDefaultOf(with_filter(ret.value[1], f))

\* the records the example logs once its subscriber is installed
EventInstalled ==
    /\ scoped # None
    /\ Event

NextOwn ==
    \/ CallFull
    \/ CallCompact
    \/ CallPretty
    \/ CallJson
    \/ SetDefaultBare
    \/ SetDefaultOwnFilter
    \/ EventInstalled

SpecOwn == InitTwice /\ [][NextOwn]_vars

----------------------------------------------------------------------------
(* try_init called by several threads at once. The framework's             *)
(* set_global_default claims the slot with one compare-and-exchange of its *)
(* once-flag; the thread that wins it writes the slot and then marks it    *)
(* initialized, every other thread gets the error.                         *)

Threads == 1..RaceThreads

\* a try_init that discards what the framework returned
TryInitResult_discarded(r) == "Ok"

\* Ok(registry().with(layers).try_init()?)
TryInitResult(r) == IF r = "Ok" THEN "Ok" ELSE "Err"

\* the threads start, in a process with no global default
RaceSpawn ==
    /\ pc = "running"
    /\ race = NoRace
    /\ global_default = None
    /\ race' = [init |-> "UNINITIALIZED",
                at |-> [t \in Threads |-> "build"],
                result |-> [t \in Threads |-> "none"],
                sub |-> [t \in Threads |-> registry_with(0, <<>>)]]
    /\ UNCHANGED <<debug_assertions, asm, level_vars, config, ret, held,
                   install_vars, emit_vars>>

\* registry().with(layers), with the layers the thread assembled
RaceBuild(t) ==
    /\ race.at # <<>>
    /\ race.at[t] = "build"
    /\ \E layers \in {<<>>, <<full_filtered(config)>>, <<compact_filtered(config)>>} :
          race' = [race EXCEPT !.at[t] = "claim",
                               !.sub[t] = registry_with(t, layers)]
    /\ UNCHANGED <<debug_assertions, asm, level_vars, config, ret, held,
                   install_vars, emit_vars>>

\* GLOBAL_INIT.compare_exchange(UNINITIALIZED, INITIALIZING)
RaceClaim(t) ==
    /\ race.at # <<>>
    /\ race.at[t] = "claim"
    /\ race' = IF race.init = "UNINITIALIZED"
               THEN [race EXCEPT !.init = "INITIALIZING", !.at[t] = "write"]
               ELSE [race EXCEPT !.at[t] = "done",
                                 !.result[t] = TryInitResult("SetGlobalDefaultError")]
    /\ UNCHANGED <<debug_assertions, asm, level_vars, config, ret, held,
                   install_vars, emit_vars>>

\* GLOBAL_DISPATCH = subscriber, by the thread that claimed the slot
RaceWrite(t) ==
    /\ race.at # <<>>
    /\ race.at[t] = "write"
    /\ global_default' = Some(race.sub[t])
    /\ race' = [race EXCEPT !.at[t] = "store"]
    /\ UNCHANGED <<debug_assertions, asm, level_vars, config, ret, held, scoped,
                   guards, next_id, outcome, history, pc, emit_vars>>

\* GLOBAL_INIT.store(INITIALIZED) and the return of try_init
RaceStore(t) ==
    /\ race.at # <<>>
    /\ race.at[t] = "store"
    /\ race' = [race EXCEPT !.init = "INITIALIZED", !.at[t] = "done",
                            !.result[t] = TryInitResult("Ok")]
    /\ UNCHANGED <<debug_assertions, asm, level_vars, config, ret, held,
                   install_vars, emit_vars>>

NextRace ==
    \/ RaceSpawn
    \/ \E t \in Threads : RaceBuild(t)
    \/ \E t \in Threads : RaceClaim(t)
    \/ \E t \in Threads : RaceWrite(t)
    \/ \E t \in Threads : RaceStore(t)

SpecRace == InitInstall /\ [][NextRace]_vars

----------------------------------------------------------------------------
(* The example of src/lib.rs as written: a filtered layer of one           *)
(* configuration and a layer of another configuration with the filter full *)
(* returned for it, installed together in one registry.                    *)

\* let layer = full_filtered(&tracing_config);
\* let (file_layer, level_filter) = full(&tracing_file_config);
\* let file_layer = file_layer.with_writer(file).with_filter(level_filter);
\* let _unused = set_default(vec![layer.boxed(), file_layer.boxed()]);
SetDefaultExample ==
    /\ pc = "running"
    /\ next_id = 1
    /\ \E c2 \in TwiceConfigs :
          LET file_layer == with_filter(full(c2)[1], full(c2)[2])
              layers     == <<full_filtered(config), file_layer>>
              r          == set_default(scoped, next_id, layers)
          IN  /\ scoped' = r[1]
              /\ guards' = Append(guards,
                     [sub |-> r[2].sub, prior |-> r[2].prior,
                      over |-> scoped,
                      before |-> get_default(global_default, scoped)])
              /\ held' = [fn |-> "example", value |-> layers,
                          original |-> <<config, c2>>]
    /\ outcome' = [op |-> "set_default", result |-> "Guard",
                   id |-> next_id, guard |-> None]
    /\ next_id' = next_id + 1
    /\ UNCHANGED <<debug_assertions, asm, race, level_vars, config, ret,
                   global_default, history, pc, emit_vars>>

NextExample ==
    \/ SetDefaultExample
    \/ EventInstalled

SpecExample == InitTwice /\ [][NextExample]_vars

----------------------------------------------------------------------------
(* One assembler call executed statement by statement, as written in       *)
(* src/format/{full,compact,pretty,json}.rs.                               *)

\* the assembler a filtered variant calls, or the assembler itself
Unfiltered(fn) ==
    CASE fn \in {"full", "full_filtered"} -> "full"
      [] fn \in {"compact", "compact_filtered"} -> "compact"
      [] fn \in {"pretty", "pretty_filtered"} -> "pretty"
      [] fn \in {"json", "json_filtered"} -> "json"

\* the statements with get_effective_level moved before the builder chain
Program_resolver_first(fn) ==
    <<"get_effective_level", "layer">>
    \o (IF Unfiltered(fn) = "full" THEN <<>> ELSE <<Unfiltered(fn)>>)
    \o <<"with_ansi", "with_file", "with_level", "with_target",
         "with_thread_ids", "with_thread_names", "with_line_number">>
    \o (IF Unfiltered(fn) = "json"
        THEN <<"with_current_span", "with_span_list">>
        ELSE <<>>)
    \o <<"with_span_events", "LevelFilter_from", "return">>
    \o (IF fn \in FilteredAssemblers THEN <<"with_filter">> ELSE <<>>)

\* the statements of the body of fn, in the order of the source
Program(fn) ==
    <<"layer">>
    \o (IF Unfiltered(fn) = "full" THEN <<>> ELSE <<Unfiltered(fn)>>)
    \o <<"with_ansi", "with_file", "with_level", "with_target",
         "with_thread_ids", "with_thread_names", "with_line_number">>
    \o (IF Unfiltered(fn) = "json"
        THEN <<"with_current_span", "with_span_list">>
        ELSE <<>>)
    \o <<"with_span_events", "get_effective_level", "LevelFilter_from", "return">>
    \o (IF fn \in FilteredAssemblers THEN <<"with_filter">> ELSE <<>>)

BuilderStatements ==
    {"layer", "compact", "pretty", "json", "with_ansi", "with_file",
     "with_level", "with_target", "with_thread_ids", "with_thread_names",
     "with_line_number", "with_current_span", "with_span_list",
     "with_span_events"}

\* the builder after the statement stmt; with_span_events stands for the
\* whole `if let Some(fmt_span) = config.with_span_events()`
ExecBuilder(l, stmt, c) ==
    CASE stmt = "layer" -> fmt_layer
      [] stmt = "compact" -> Layer_compact(l)
      [] stmt = "pretty" -> Layer_pretty(l)
      [] stmt = "json" -> Layer_json(l)
      [] stmt = "with_ansi" -> Layer_with_ansi(l, Config_with_ansi(c))
      [] stmt = "with_file" -> Layer_with_file(l, Config_with_file(c))
      [] stmt = "with_level" -> Layer_with_level(l, Config_with_level(c))
      [] stmt = "with_target" -> Layer_with_target(l, Config_with_target(c))
      [] stmt = "with_thread_ids" ->
             Layer_with_thread_ids(l, Config_with_thread_ids(c))
      [] stmt = "with_thread_names" ->
             Layer_with_thread_names(l, Config_with_thread_names(c))
      [] stmt = "with_line_number" ->
             Layer_with_line_number(l, Config_with_line_number(c))
      [] stmt = "with_current_span" ->
             Layer_with_current_span(l, Config_with_current_span(c))
      [] stmt = "with_span_list" ->
             Layer_with_span_list(l, Config_with_span_list(c))
      [] stmt = "with_span_events" -> SpanEvents(l, c)
      [] OTHER -> l

\* the call in progress after its next statement; the trace gains the
\* builder calls the statement made, or the name of the statement
Exec(a, c) ==
    LET stmt == Program(a.fn)[a.at]
        l    == ExecBuilder(a.layer, stmt, c)
        made == IF stmt = "layer" THEN l.calls
                ELSE SubSeq(l.calls, Len(a.layer.calls) + 1, Len(l.calls))
    IN  [fn |-> a.fn,
         layer |-> l,
         level |-> IF stmt = "get_effective_level"
                   THEN get_effective_level(Config_quiet(c), Config_verbose(c))
                   ELSE a.level,
         filter |-> IF stmt = "LevelFilter_from"
                    THEN LevelFilter_from(a.level)
                    ELSE a.filter,
         trace |-> IF stmt \in BuilderStatements
                   THEN a.trace \o made
                   ELSE Append(a.trace, stmt),
         at |-> a.at + 1]

AsmDone(a) == a.fn # "none" /\ a.at > Len(Program(a.fn))

\* what the finished call hands to its caller
AsmValue(a) ==
    IF a.fn \in FilteredAssemblers
    THEN with_filter(a.layer, a.filter)
    ELSE <<a.layer, a.filter>>

StepConfigs ==
    {TestAll, TestConfig, TestJson}
    \cup {[TestConfig EXCEPT !.span_events = Some(r)] : r \in OptionFmtSpan}

InitSteps ==
    /\ debug_assertions \in BOOLEAN
    /\ quiet = 0
    /\ verbosity = 0
    /\ level = "UNSET"
    /\ config \in StepConfigs
    /\ ret = NoRet
    /\ Idle

\* the program calls an assembler
BeginAssembly ==
    /\ pc = "running"
    /\ asm.fn = "none" \/ AsmDone(asm)
    /\ \E fn \in Assemblers \cup FilteredAssemblers :
          asm' = [NoAsm EXCEPT !.fn = fn, !.at = 1]
    /\ UNCHANGED <<debug_assertions, race, level_vars, config, ret, held,
                   install_vars, emit_vars>>

\* the call executes its next statement; the last one hands over the value
StepAssembly ==
    /\ pc = "running"
    /\ asm.fn # "none"
    /\ ~AsmDone(asm)
    /\ asm' = Exec(asm, config)
    /\ ret' = IF AsmDone(asm')
              THEN [fn |-> asm.fn, value |-> AsmValue(asm')]
              ELSE ret
    /\ UNCHANGED <<debug_assertions, race, level_vars, config, held,
                   install_vars, emit_vars>>

NextSteps ==
    \/ BeginAssembly
    \/ StepAssembly

SpecSteps == InitSteps /\ [][NextSteps]_vars

----------------------------------------------------------------------------
(* The resolver called directly on one pair of u8 counters *)

InitLevel ==
    /\ debug_assertions \in BOOLEAN
    /\ quiet \in U8
    /\ verbosity \in U8
    /\ level = "UNSET"
    /\ config = TestConfig
    /\ ret = NoRet
    /\ Idle

CallGetEffectiveLevel ==
    /\ level = "UNSET"
    /\ level' = get_effective_level(quiet, verbosity)
    /\ UNCHANGED <<debug_assertions, asm, race, quiet, verbosity, config, ret, held,
                   install_vars, emit_vars>>

NextLevel == CallGetEffectiveLevel

SpecLevel == InitLevel /\ [][NextLevel]_vars

----------------------------------------------------------------------------
(* Claims about the resolver, checked under SpecLevel *)

Called == level # "UNSET"

Min(a, b) == IF a < b THEN a ELSE b

Ladder == <<"ERROR", "WARN", "INFO", "DEBUG", "TRACE">>

\* C1: in a debug build, for every pair of u8 counters the resolver returns
\* TRACE if verbose >= 2, DEBUG if verbose = 1, WARN if verbose = 0 and
\* quiet = 1, ERROR if verbose = 0 and quiet >= 2, INFO if both are 0.
C1_DebugPolicy ==
    (debug_assertions /\ Called) =>
        /\ verbosity >= 2 => level = "TRACE"
        /\ verbosity = 1 => level = "DEBUG"
        /\ (verbosity = 0 /\ quiet = 1) => level = "WARN"
        /\ (verbosity = 0 /\ quiet >= 2) => level = "ERROR"
        /\ (verbosity = 0 /\ quiet = 0) => level = "INFO"

C1_Witness ==
    /\ debug_assertions
    /\ quiet = 7
    /\ verbosity = 0
    /\ level = "ERROR"

\* C2: in a release build, for every pair of u8 counters the resolver returns
\* the element of the ladder [ERROR, WARN, INFO, DEBUG, TRACE] at index
\* min(verbose, 4).
C2_ReleaseLadder ==
    (~debug_assertions /\ Called) => level = Ladder[Min(verbosity, 4) + 1]

C2_Witness ==
    /\ ~debug_assertions
    /\ quiet = 1
    /\ verbosity = 200
    /\ level = "TRACE"

\* C3 as stated: the boundary pairs (quiet, verbose) resolve to
\* (0,0) -> info | error, (0,1) -> debug | warn, (1,0) -> warn | warn,
\* (0,4) -> trace | trace, (2,0) -> error | info (debug | release).
C3_BoundaryTable_AsStated ==
    Called =>
        /\ (quiet = 0 /\ verbosity = 0) =>
              level = IF debug_assertions THEN "INFO" ELSE "ERROR"
        /\ (quiet = 0 /\ verbosity = 1) =>
              level = IF debug_assertions THEN "DEBUG" ELSE "WARN"
        /\ (quiet = 1 /\ verbosity = 0) =>
              level = IF debug_assertions THEN "WARN" ELSE "WARN"
        /\ (quiet = 0 /\ verbosity = 4) =>
              level = IF debug_assertions THEN "TRACE" ELSE "TRACE"
        /\ (quiet = 2 /\ verbosity = 0) =>
              level = IF debug_assertions THEN "ERROR" ELSE "INFO"

\* C3 amended: the boundary pairs (quiet, verbose) resolve to
\* (0,0) -> info | error, (0,1) -> debug | warn, (1,0) -> warn | error,
\* (0,4) -> trace | trace, (2,0) -> error | error (debug | release): with
\* verbose = 0 the release policy returns ERROR whatever quiet is.
C3_BoundaryTable ==
    Called =>
        /\ (quiet = 0 /\ verbosity = 0) =>
              level = IF debug_assertions THEN "INFO" ELSE "ERROR"
        /\ (quiet = 0 /\ verbosity = 1) =>
              level = IF debug_assertions THEN "DEBUG" ELSE "WARN"
        /\ (quiet = 1 /\ verbosity = 0) =>
              level = IF debug_assertions THEN "WARN" ELSE "ERROR"
        /\ (quiet = 0 /\ verbosity = 4) =>
              level = IF debug_assertions THEN "TRACE" ELSE "TRACE"
        /\ (quiet = 2 /\ verbosity = 0) =>
              level = IF debug_assertions THEN "ERROR" ELSE "ERROR"

C3_Witness ==
    /\ ~debug_assertions
    /\ quiet = 2
    /\ verbosity = 0
    /\ level = "ERROR"

\* C4: in a debug build verbose takes precedence over quiet: once verbose >= 1
\* the resolved level is the one every other quiet value resolves to with the
\* same verbose, e.g. (2,1) -> DEBUG and (2,2) -> TRACE.
C4_VerbosePrecedence ==
    (debug_assertions /\ Called /\ verbosity >= 1) =>
        /\ \A q \in U8 : get_effective_level(q, verbosity) = level
        /\ (quiet = 2 /\ verbosity = 1) => level = "DEBUG"
        /\ (quiet = 2 /\ verbosity = 2) => level = "TRACE"

C4_Witness ==
    /\ debug_assertions
    /\ quiet = 2
    /\ verbosity = 1
    /\ level = "DEBUG"

\* C5: in a release build quiet is ignored: the level resolved for
\* (quiet, verbose) is the level every other quiet value resolves to with the
\* same verbose.
C5_ReleaseIgnoresQuiet ==
    (~debug_assertions /\ Called) =>
        \A q \in U8 : get_effective_level(q, verbosity) = level

C5_Witness ==
    /\ ~debug_assertions
    /\ quiet = 3
    /\ verbosity = 2
    /\ level = "INFO"

\* C6: the resolver is total over u8 x u8 under both policies: every call
\* returns one of the five levels (it never panics), verbose above the
\* explicit range resolves to TRACE, quiet above the explicit range with
\* verbose = 0 resolves to ERROR in a debug build, and (255, 255) returns a
\* level.
C6_Total ==
    /\ (level = "UNSET") => ENABLED CallGetEffectiveLevel
    /\ Called =>
          /\ level \in Levels
          /\ (debug_assertions /\ verbosity >= 2) => level = "TRACE"
          /\ (~debug_assertions /\ verbosity >= 4) => level = "TRACE"
          /\ (debug_assertions /\ verbosity = 0 /\ quiet >= 2) => level = "ERROR"

C6_Witness ==
    /\ quiet = U8Max
    /\ verbosity = U8Max
    /\ level \in Levels

----------------------------------------------------------------------------
(* Claims about the assemblers, checked under Spec *)

\* the layer inside what the last call returned
ReturnedLayer == IF ret.fn \in Assemblers THEN ret.value[1] ELSE ret.value.layer

\* the specification's order of severities: trace < debug < info < warn < error < off
Severity(x) ==
    CASE x = "TRACE" -> 0
      [] x = "DEBUG" -> 1
      [] x = "INFO"  -> 2
      [] x = "WARN"  -> 3
      [] x = "ERROR" -> 4
      [] x = "OFF"   -> 5

\* the severity a threshold stands for
Threshold(f) == IF f = OFF THEN "OFF" ELSE CHOOSE t \in f : TRUE

\* the configurations that differ from c in one toggle or in the span-event
\* policy: one boolean accessor overridden, one override dropped, or another
\* with_span_events
ToggleVariants(c) ==
    {[c EXCEPT !.overrides = (m :> b) @@ c.overrides] :
        m \in BoolMethods, b \in BOOLEAN}
    \cup {[c EXCEPT !.overrides = [n \in (DOMAIN c.overrides) \ {m} |-> c.overrides[n]]] :
            m \in BoolMethods}
    \cup {[c EXCEPT !.span_events = s] :
            s \in {None} \cup {Some(r) : r \in OptionFmtSpan}}

\* the threshold the assembler named fn returns for c
ThresholdOf(fn, c) ==
    CASE fn = "full" -> full(c)[2]
      [] fn = "compact" -> compact(c)[2]
      [] fn = "pretty" -> pretty(c)[2]
      [] fn = "json" -> json(c)[2]

\* C7: the LevelFilter returned by each of full, compact, pretty and json is
\* the level get_effective_level gives for config.quiet() and
\* config.verbose(), so all four assemblers return the same threshold for
\* the same configuration, and changing a display toggle or the span-event
\* policy does not change it.
C7_ThresholdFromResolver ==
    ret.fn \in Assemblers =>
        /\ ret.value[2] =
              Some(get_effective_level(Config_quiet(config), Config_verbose(config)))
        /\ \A fn \in Assemblers : ThresholdOf(fn, config) = ret.value[2]
        /\ \A c \in ToggleVariants(config) : ThresholdOf(ret.fn, c) = ret.value[2]

C7_Witness ==
    /\ ret.fn = "full"
    /\ debug_assertions
    /\ config.quiet = 1
    /\ config.verbose = 0
    /\ config.span_events = Some(Some("CLOSE"))
    /\ ret.value[2] = Some("WARN")

\* what S_filtered must return given the pair S returned: that layer wrapped
\* with that threshold, passing exactly the records at or above it
WrapsPair(pair) ==
    /\ ret.value = with_filter(pair[1], pair[2])
    /\ \A lvl \in Levels :
          Filtered_enabled(ret.value, lvl) <=>
              Severity(lvl) >= Severity(Threshold(pair[2]))

\* C8: for each format S, S_filtered(config) is the layer returned by
\* S(config) wrapped with the threshold returned by S(config): it passes a
\* record if and only if the record's severity is at or above that threshold.
C8_FilteredWrapsAssembler ==
    /\ ret.fn = "full_filtered" => WrapsPair(full(config))
    /\ ret.fn = "compact_filtered" => WrapsPair(compact(config))
    /\ ret.fn = "pretty_filtered" => WrapsPair(pretty(config))
    /\ ret.fn = "json_filtered" => WrapsPair(json(config))

C8_Witness ==
    /\ ret.fn = "pretty_filtered"
    /\ ret.value.filter = Some("WARN")
    /\ Filtered_enabled(ret.value, "ERROR")
    /\ Filtered_enabled(ret.value, "WARN")
    /\ ~Filtered_enabled(ret.value, "INFO")

\* C9: in the layer any assembler builds, ansi, file, level, target, thread
\* ids, thread names and line number equal the configuration's accessors,
\* and in the JSON layer current span and span list equal
\* config.with_current_span() and config.with_span_list().
C9_OptionsFromConfig ==
    ret.fn \in Assemblers \cup FilteredAssemblers =>
        /\ ReturnedLayer.ansi = Config_with_ansi(config)
        /\ ReturnedLayer.file = Config_with_file(config)
        /\ ReturnedLayer.level = Config_with_level(config)
        /\ ReturnedLayer.target = Config_with_target(config)
        /\ ReturnedLayer.thread_ids = Config_with_thread_ids(config)
        /\ ReturnedLayer.thread_names = Config_with_thread_names(config)
        /\ ReturnedLayer.line_number = Config_with_line_number(config)
        /\ ret.fn \in {"json", "json_filtered"} =>
              ReturnedLayer.json_opts =
                  Some([current_span |-> Config_with_current_span(config),
                        span_list |-> Config_with_span_list(config)])

C9_Witness ==
    /\ ret.fn = "compact"
    /\ "with_file" \in DOMAIN config.overrides
    /\ ret.value[1].file
    /\ ~ret.value[1].line_number

\* C10: a configuration that implements only quiet() and verbose() yields
\* ansi = true, level = true, file, line number, target, thread ids, thread
\* names, current span and span list = false, and span events = None.
C10_Defaults ==
    NumOverrides(config) = 0 =>
        /\ Config_with_ansi(config) = TRUE
        /\ Config_with_level(config) = TRUE
        /\ Config_with_file(config) = FALSE
        /\ Config_with_line_number(config) = FALSE
        /\ Config_with_target(config) = FALSE
        /\ Config_with_thread_ids(config) = FALSE
        /\ Config_with_thread_names(config) = FALSE
        /\ Config_with_current_span(config) = FALSE
        /\ Config_with_span_list(config) = FALSE
        /\ Config_with_span_events(config) = None

C10_Witness ==
    /\ NumOverrides(config) = 0
    /\ ret.fn = "json"
    /\ ret.value[1].ansi
    /\ ret.value[1].level
    /\ ~ret.value[1].target
    /\ ret.value[1].span_events = "NONE"
    /\ ret.value[1].json_opts = Some([current_span |-> FALSE, span_list |-> FALSE])

Range(seq) == {seq[i] : i \in DOMAIN seq}

\* what the assembler or filtered named fn returns for c
Assemble(fn, c) ==
    CASE fn = "full" -> full(c)
      [] fn = "compact" -> compact(c)
      [] fn = "pretty" -> pretty(c)
      [] fn = "json" -> json(c)
      [] fn = "full_filtered" -> full_filtered(c)
      [] fn = "compact_filtered" -> compact_filtered(c)
      [] fn = "pretty_filtered" -> pretty_filtered(c)
      [] fn = "json_filtered" -> json_filtered(c)

\* C11: in every assembler the span-event policy is applied to the layer if
\* and only if config.with_span_events() is set; when it is unset
\* with_span_events is not called and the layer keeps the builder's default,
\* which synthesizes no span-lifecycle record.
C11_SpanEventsIffSet ==
    ret.fn \in Assemblers \cup FilteredAssemblers =>
        LET policy == Config_with_span_events(config)
        IN  /\ (policy # None) <=> ("with_span_events" \in Range(ReturnedLayer.calls))
            /\ policy # None => ReturnedLayer.span_events = (CHOOSE f \in policy : TRUE)
            /\ policy = None =>
                  /\ ReturnedLayer.span_events = fmt_layer.span_events
                  /\ FmtSpan_events(ReturnedLayer.span_events) = {}

C11_Witness ==
    /\ ret.fn = "pretty"
    /\ Config_with_span_events(config) = Some("ENTER")
    /\ ret.value[1].span_events = "ENTER"
    /\ FmtSpan_events(ret.value[1].span_events) = {"enter"}

\* the configurations that differ from c at most in with_current_span and
\* with_span_list
JsonOnlyVariants(c) ==
    LET others == (DOMAIN c.overrides) \ {"with_current_span", "with_span_list"}
        kept   == [m \in others |-> c.overrides[m]]
    IN  {[c EXCEPT !.overrides = j @@ kept] :
            j \in UNION {[M -> BOOLEAN] :
                           M \in SUBSET {"with_current_span", "with_span_list"}}}

\* C12: the JSON-only options have no effect on full, compact and pretty:
\* configurations that differ only in with_current_span / with_span_list get
\* the same layer and threshold, and the layer was built without either
\* setter.
C12_JsonOnlyOptionsUnused ==
    ret.fn \in {"full", "compact", "pretty"} =>
        /\ \A c \in JsonOnlyVariants(config) : Assemble(ret.fn, c) = ret.value
        /\ ret.value[1].json_opts = None
        /\ Range(ret.value[1].calls) \cap {"with_current_span", "with_span_list"} = {}

C12_Witness ==
    /\ ret.fn = "pretty"
    /\ "with_current_span" \in DOMAIN config.overrides
    /\ Config_with_current_span(config)
    /\ ret.value = pretty(TestConfig)

----------------------------------------------------------------------------
(* Claims about installation, checked under SpecInstall *)

\* the subscriber records are dispatched to now (Option)
CurrentDefault == get_default(global_default, scoped)

\* the guard the last drop dropped
Dropped == CHOOSE g \in outcome.guard : TRUE

\* C13: in any sequence of global installation calls exactly the first
\* succeeds: a second try_init returns the already-set error, and a try_init
\* after a successful init returns that error instead of panicking.
C13_FirstGlobalInstallWins ==
    \A i \in DOMAIN history :
        /\ (history[i].result = "Ok") <=> (i = 1)
        /\ (i > 1 /\ history[i].op = "try_init") => history[i].result = "Err"

C13_Witness ==
    /\ Len(history) = 2
    /\ history[1].op = "init"
    /\ history[1].result = "Ok"
    /\ history[2].op = "try_init"
    /\ history[2].result = "Err"
    /\ pc = "running"

\* C14: at most one global default is ever active: once the slot is set it
\* keeps the same subscriber in every later state, whatever is called, a
\* failing try_init included.
C14_GlobalDefaultStays ==
    [][global_default # None => global_default' = global_default]_vars

C14_Witness ==
    /\ global_default # None
    /\ outcome.op = "try_init"
    /\ outcome.result = "Err"
    /\ (CHOOSE g \in global_default : TRUE).id # outcome.id

\* C15: init with a global default already set, by init or by try_init,
\* panics instead of returning and does not replace the default.
C15_SecondInitPanics ==
    /\ \A i \in DOMAIN history :
          (i > 1 /\ history[i].op = "init") => history[i].result = "Panic"
    /\ (history # <<>> /\ history[Len(history)].result = "Panic") => pc # "running"
    /\ history # <<>> =>
          /\ global_default # None
          /\ (CHOOSE g \in global_default : TRUE).id = history[1].id

C15_Witness ==
    /\ Len(history) = 2
    /\ history[1].op = "try_init"
    /\ history[2].op = "init"
    /\ history[2].result = "Panic"
    /\ pc = "exited"

C17_RestoresCurrentAtCreation ==
    outcome.op = "drop" => CurrentDefault = Dropped.before

\* C17 amended: dropping a set_default guard restores the scoped default
\* that was in place when the guard was created, so records go to that
\* scoped default or, if there was none, to the global default as it is now;
\* of two nested guards the inner is reverted first and the outer registry
\* is current again; a scope left by return or by unwinding drops every
\* guard it holds, the last created first.
C17_DropRestoresScoped ==
    /\ outcome.op = "drop" =>
          /\ scoped = Dropped.over
          /\ CurrentDefault = get_default(global_default, Dropped.over)
    /\ (outcome.op = "drop" /\ pc \in {"returning", "unwinding"}) =>
          \A i \in DOMAIN guards : guards[i].sub.id < Dropped.sub.id
    /\ pc = "exited" => guards = <<>>

C17_Witness ==
    /\ outcome.op = "drop"
    /\ pc = "returning"
    /\ Len(guards) = 1
    /\ Dropped.over = Some(guards[1].sub)
    /\ CurrentDefault = Some(guards[1].sub)
    /\ Writers(guards[1].sub, "ERROR") = {1}

----------------------------------------------------------------------------
(* Claims about what the filters let through *)

\* the implementation with quiet = 0, verbose = 0 and no defaulted method
\* overridden
DefaultConfig == [quiet |-> 0, verbose |-> 0, overrides |-> <<>>, span_events |-> None]

\* the levels whose records the Filtered built from the returned value passes
Passed == {lvl \in Levels : Filtered_enabled(LayersOf(ret)[1], lvl)}

\* C18 as stated: for the default-valued configuration the filter of the
\* compact assembler passes info, warn and error records and suppresses debug
\* and trace records.
C18_DefaultCompactPassesInfo ==
    (config = DefaultConfig /\ ret.fn \in {"compact", "compact_filtered"}) =>
        Passed = {"INFO", "WARN", "ERROR"}

\* C18 amended: for the default-valued configuration the filter of the
\* compact assembler passes info, warn and error records and suppresses debug
\* and trace records in a debug build; in a release build it passes error
\* records only.
C18_DefaultCompactByBuild ==
    (config = DefaultConfig /\ ret.fn \in {"compact", "compact_filtered"}) =>
        Passed = IF debug_assertions THEN {"INFO", "WARN", "ERROR"} ELSE {"ERROR"}

C18_Witness ==
    /\ config = DefaultConfig
    /\ ret.fn = "compact_filtered"
    /\ debug_assertions
    /\ Filtered_enabled(ret.value, "INFO")
    /\ ~Filtered_enabled(ret.value, "DEBUG")

\* the records handed to a registry whose only layer is full_filtered(TestAll)
ToFullFilteredAll ==
    {r \in emitted :
        /\ r.to # None
        /\ (CHOOSE x \in r.to : TRUE).layers = <<full_filtered(TestAll)>>}

\* C19 as stated: with TestAll, the installed full_filtered layer writes the
\* record of each of the five severities and the synthesized enter and exit
\* records of the span.
C19_AllFiveAndSpanRecords ==
    config = TestAll =>
        \A r \in ToFullFilteredAll :
            r.kind \in {"event", "enter", "exit"} => r.written = {1}

\* C19 amended: with TestAll, the installed full_filtered layer writes, in a
\* debug build, the record of each of the five severities and the
\* synthesized enter and exit records of the span; in a release build its
\* threshold is DEBUG: it writes the error, warn, info and debug records,
\* not the trace record, and the enter and exit records of the span unless
\* the span is of level TRACE.
C19_RecordsByBuild ==
    config = TestAll =>
        \A r \in ToFullFilteredAll :
            r.kind \in {"event", "enter", "exit"} =>
                IF debug_assertions \/ r.level # "TRACE"
                THEN r.written = {1}
                ELSE r.written = {}

C19_Witness ==
    /\ config = TestAll
    /\ debug_assertions
    /\ \A lvl \in Levels :
          \E r \in ToFullFilteredAll :
              r.kind = "event" /\ r.level = lvl /\ r.written = {1}
    /\ \A k \in {"enter", "exit"} :
          \E r \in ToFullFilteredAll :
              r.kind = k /\ r.level = "TRACE" /\ r.written = {1}

----------------------------------------------------------------------------
(* Claims about calling an assembler twice, checked under SpecTwice *)

----------------------------------------------------------------------------
(* Claims about what assembly and installation leave alone *)

InstallOps == {"init", "try_init", "set_default", "drop"}

\* C21: a call of an assembler or of a filtered variant, in any state and
\* any number of times, leaves the global default and the scoped default of
\* the thread as they are; a step that changes either is an init, a
\* try_init, a set_default or the drop of a guard.
C21_AssemblyInstallsNothing ==
    [][/\ (ret' # ret /\ ret'.fn # "none") =>
             (global_default' = global_default /\ scoped' = scoped)
       /\ (global_default' # global_default \/ scoped' # scoped) =>
             (outcome' # outcome /\ outcome'.op \in InstallOps)]_vars

C21_Witness ==
    /\ ret.fn = "json_filtered"
    /\ global_default # None
    /\ scoped # None
    /\ scoped # global_default
    /\ outcome.op \in InstallOps

----------------------------------------------------------------------------
(* Claims about the order of the steps of one assembly, under SpecSteps *)

\* the order the specification gives for the steps of fn with configuration c
StatedOrder(fn, c) ==
    <<"layer">>
    \o (IF Unfiltered(fn) = "full" THEN <<>> ELSE <<Unfiltered(fn)>>)
    \o <<"with_ansi", "with_file", "with_level", "with_target",
         "with_thread_ids", "with_thread_names", "with_line_number">>
    \o (IF Unfiltered(fn) = "json"
        THEN <<"with_current_span", "with_span_list">>
        ELSE <<>>)
    \o (IF Config_with_span_events(c) # None THEN <<"with_span_events">> ELSE <<>>)
    \o <<"get_effective_level">>

\* the calls of a trace that the stated order speaks of
StatedCalls(trace) ==
    SelectSeq(trace, LAMBDA s : s \in BuilderStatements \cup {"get_effective_level"})

IsPrefix(s, t) == Len(s) <= Len(t) /\ s = SubSeq(t, 1, Len(s))

\* C22: at every point of an assembly the calls made so far are a prefix of:
\* base shape, ansi, file, level, target, thread ids, thread names, line
\* number, then for json current span and span list, then the span-event
\* policy if it is set, then the level resolver; a finished assembly has made
\* all of them, the resolver once and last, and returns what the assembler
\* returns.
C22_FixedStepOrder ==
    asm.fn # "none" =>
        /\ IsPrefix(StatedCalls(asm.trace), StatedOrder(asm.fn, config))
        /\ AsmDone(asm) =>
              /\ StatedCalls(asm.trace) = StatedOrder(asm.fn, config)
              /\ ret.fn = asm.fn
              /\ ret.value = Assemble(asm.fn, config)

C22_Witness ==
    /\ asm.fn = "json"
    /\ AsmDone(asm)
    /\ Config_with_span_events(config) # None
    /\ Len(StatedCalls(asm.trace)) = 13
    /\ StatedCalls(asm.trace)[12] = "with_span_events"
    /\ StatedCalls(asm.trace)[13] = "get_effective_level"

----------------------------------------------------------------------------
(* Claims about a layer installed without the generated filter, under SpecOwn *)

\* the records handed to the registry holding the layer of held
ToHeld ==
    {r \in emitted :
        /\ r.to # None
        /\ (CHOOSE x \in r.to : TRUE).layers = <<held.value>>}

\* C23: the layer an unfiltered assembler returns carries no filter: installed
\* as returned it writes the record of every severity, whatever threshold
\* the assembler returned with it, and installed with a LevelFilter of the
\* caller's it writes exactly the records that filter passes.
C23_UnfilteredLayerSuppressesNothing ==
    held.fn \in Assemblers =>
        /\ held.original = Assemble(held.fn, config)
        /\ held.value = held.original[1] =>
              \A r \in ToHeld : r.written = {1}
        /\ held.value # held.original[1] =>
              \A r \in ToHeld :
                  (r.written = {1}) <=> LevelFilter_enabled(held.value.filter, r.level)

C23_Witness ==
    /\ held.fn = "compact"
    /\ held.value = held.original[1]
    /\ held.original[2] = LevelFilter_from("ERROR")
    /\ \E r \in ToHeld : r.level = "TRACE" /\ r.written = {1}

----------------------------------------------------------------------------
(* Claims about try_init called by several threads, under SpecRace *)

RaceDone == race.at # <<>> /\ \A t \in Threads : race.at[t] = "done"

\* C24: when the threads call try_init at the same time in a process with no
\* global default, at most one call returns Ok at any moment, the slot is
\* empty or holds the whole Registry of one of the threads, and once every
\* call has returned exactly one returned Ok, every other returned the
\* error, and the slot holds the Registry of the thread that got Ok.
C24_OneConcurrentTryInitWins ==
    race.at # <<>> =>
        /\ Cardinality({t \in Threads : race.result[t] = "Ok"}) <= 1
        /\ global_default \in {None} \cup {Some(race.sub[t]) : t \in Threads}
        /\ RaceDone =>
              \E w \in Threads :
                  /\ race.result[w] = "Ok"
                  /\ global_default = Some(race.sub[w])
                  /\ \A t \in Threads \ {w} : race.result[t] = "Err"

C24_Witness ==
    /\ RaceDone
    /\ race.result[1] = "Err"
    /\ race.result[2] = "Ok"
    /\ global_default = Some(race.sub[2])
    /\ race.sub[1].layers # race.sub[2].layers

----------------------------------------------------------------------------
(* Claims about scoped and global installation together, under SpecFrame *)

\* the live guards form a stack: each holds the override its predecessor
\* installed, the first holds none, and the newest one's registry is the
\* scoped default
ProperlyNested ==
    IF guards = <<>>
    THEN scoped = None
    ELSE /\ scoped = Some(guards[Len(guards)].sub)
         /\ \A i \in DOMAIN guards :
               guards[i].prior = IF i = 1 THEN None ELSE Some(guards[i - 1].sub)

\* this step drops a guard that is not the newest live one
OutOfOrderDrop ==
    /\ Len(guards') < Len(guards)
    /\ guards' # SubSeq(guards, 1, Len(guards) - 1)

----------------------------------------------------------------------------
(* Claims about the range and the monotony of the threshold *)

\* C26 (under Spec): the LevelFilter an assembler returns or wraps is never
\* OFF, in either build, so the filter of every filtered layer passes a
\* record of level ERROR.
C26_ThresholdNeverOff ==
    /\ ret.fn \in Assemblers =>
          /\ ret.value[2] # OFF
          /\ LevelFilter_enabled(ret.value[2], "ERROR")
    /\ ret.fn \in FilteredAssemblers =>
          /\ ret.value.filter # OFF
          /\ Filtered_enabled(ret.value, "ERROR")

C26_Witness ==
    /\ ret.fn = "json_filtered"
    /\ config.quiet = U8Max
    /\ config.verbose = 0
    /\ Filtered_enabled(ret.value, "ERROR")
    /\ ~Filtered_enabled(ret.value, "WARN")

\* C27 (under SpecLevel): in both builds a larger verbose with the same quiet
\* never gives a less permissive level, and in a debug build a larger quiet
\* with the same verbose never gives a more permissive level.
C27_Monotone ==
    Called =>
        /\ \A v \in U8 :
              v >= verbosity =>
                  Verbosity(get_effective_level(quiet, v)) >= Verbosity(level)
        /\ debug_assertions =>
              \A q \in U8 :
                  q >= quiet =>
                      Verbosity(get_effective_level(q, verbosity)) <= Verbosity(level)

C27_Witness ==
    /\ Called
    /\ debug_assertions
    /\ quiet = 1
    /\ verbosity = 0
    /\ level = "WARN"
    /\ Verbosity(get_effective_level(2, 0)) < Verbosity(level)
    /\ Verbosity(get_effective_level(1, 1)) > Verbosity(level)

----------------------------------------------------------------------------
(* Claims about several filtered layers in one registry, under SpecExample *)

\* the records handed to the registry of the example
ToExample ==
    {r \in emitted :
        /\ r.to # None
        /\ (CHOOSE x \in r.to : TRUE).layers = held.value}

\* C28: with two filtered layers built from two configurations in one
\* registry, a record is written by a layer if and only if its severity is
\* at or above the threshold resolved from that layer's own configuration,
\* whatever the threshold of the other layer.
C28_FilteringPerLayer ==
    held.fn = "example" =>
        \A r \in ToExample :
            \A i \in {1, 2} :
                (i \in r.written) <=>
                    Severity(r.level) >=
                        Severity(get_effective_level(Config_quiet(held.original[i]),
                                                     Config_verbose(held.original[i])))

C28_Witness ==
    /\ held.fn = "example"
    /\ \E r \in ToExample : r.written = {1}
    /\ \E r \in ToExample : r.written = {1, 2}

====
